---- MODULE Spec2Model ----
(***************************************************************************)
(* Model of opal/views/core.py: the Extractor query engine (criterion      *)
(* resolution against the record store and the set-algebra fold of the     *)
(* per-criterion results) and the legacy API views that notify the         *)
(* change-notification sink (glossolalia).                                 *)
(*                                                                         *)
(* Strings are sequences of one-character strings, so that the comparisons *)
(* the code performs (Python ==, the record store's __iexact and           *)
(* __icontains) are computed and not assumed.  A criterion's column and    *)
(* field are given in the normal form the code reduces them to (lower      *)
(* case, no blanks, no underscores in the column).                         *)
(***************************************************************************)
EXTENDS Integers, Sequences, FiniteSets, TLC

VARIABLES
    registry,         \* djangomodels.get_models(): the registered classes, in order
    episode_patient,  \* Episode.patient: episode id -> patient id
    tables,           \* subrecord class -> its rows
    synonyms,         \* Synonym rows: [name, canonical]
    query,            \* Extractor.query (None until get_query)
    pc,               \* position inside get_episodes
    all_matches,      \* get_episodes: the (combine, episodes) pairs built so far
    working,          \* get_episodes: the accumulated set
    rest,             \* get_episodes: the pairs still to fold
    result,           \* what get_episodes returned
    error,            \* the exception get_episodes let escape ("none" if none)
    last,             \* trace of the criterion resolved last: class chosen, store calls
    db,               \* the Episode table the API views work on: pk -> row
    req,              \* the request an API view is handling
    vpc,              \* position inside the API view
    resp,             \* the response the caller received
    cur,              \* trace of the current request: updates, sink calls
    sink_log,         \* notifications the sink accepted
    served            \* number of requests received

extractor_vars == <<query, pc, all_matches, working, rest, result, error, last>>
store_vars == <<registry, episode_patient, tables, synonyms>>
view_vars == <<db, req, vpc, resp, cur, sink_log, served>>
vars == <<registry, episode_patient, tables, synonyms, query, pc, all_matches,
          working, rest, result, error, last, db, req, vpc, resp, cur, sink_log, served>>

----------------------------------------------------------------------------
(* Bounds of the model *)

NumEpisodes == 3
NumPatients == 2
MaxCriteria == 3
MaxRequests == 2

Episodes == 1..NumEpisodes
Patients == 1..NumPatients

----------------------------------------------------------------------------
(* Strings *)

None == "None"
NoFk == <<>>

LowerChar(c) ==
    CASE c = "T" -> "t" [] c = "R" -> "r" [] c = "U" -> "u" [] c = "E" -> "e"
      [] c = "H" -> "h" [] c = "I" -> "i" [] c = "V" -> "v"
      [] c = "A" -> "a" [] c = "B" -> "b"
      [] OTHER -> c

Lower(s) == [i \in 1..Len(s) |-> LowerChar(s[i])]

IsSubstring(needle, hay) ==
    \E i \in 0..(Len(hay) - Len(needle)) :
        \A j \in 1..Len(needle) : hay[i + j] = needle[j]

Digits(n) == << CASE n = 1 -> "1" [] n = 2 -> "2" [] n = 3 -> "3"
                  [] n = 4 -> "4" [] OTHER -> "9" >>

\* datetime.datetime.strptime(value, "%d/%m/%Y"): day, month, year in that order
Num == ("01" :> 1) @@ ("02" :> 2) @@ ("06" :> 6) @@ ("13" :> 13) @@ ("31" :> 31)
       @@ ("05" :> 5) @@ ("2020" :> 2020)

Ordinal(y, m, d) == y * 372 + m * 31 + d

strptime(v) ==
    IF /\ Len(v) = 5
       /\ v[2] = "/" /\ v[4] = "/"
       /\ v[1] \in DOMAIN Num /\ v[3] \in DOMAIN Num /\ v[5] \in DOMAIN Num
       /\ Num[v[1]] \in 1..31 /\ Num[v[3]] \in 1..12
    THEN [ok |-> TRUE, date |-> Ordinal(Num[v[5]], Num[v[3]], Num[v[1]])]
    ELSE [ok |-> FALSE, date |-> 0]

----------------------------------------------------------------------------
(* The registered classes and their declared fields *)

ClassInfo ==
       ("Diagnosis"       :> [name |-> "diagnosis",    base |-> "EpisodeSubrecord"])
    @@ ("Demographics"    :> [name |-> "demographics", base |-> "PatientSubrecord"])
    @@ ("Tagging"         :> [name |-> "tagging",      base |-> "Model"])
    @@ ("AllergiesLookup" :> [name |-> "allergies",    base |-> "Model"])
    @@ ("Allergies"       :> [name |-> "allergies",    base |-> "EpisodeSubrecord"])
    @@ ("TravelE"         :> [name |-> "travel",       base |-> "EpisodeSubrecord"])
    @@ ("TravelP"         :> [name |-> "travel",       base |-> "PatientSubrecord"])
    @@ ("LineA"           :> [name |-> "line",         base |-> "Model"])
    @@ ("LineB"           :> [name |-> "line",         base |-> "Model"])

issubclass(m, base) == m \in DOMAIN ClassInfo /\ ClassInfo[m].base = base

IsSubrecord(m) == issubclass(m, "EpisodeSubrecord") \/ issubclass(m, "PatientSubrecord")

\* Mod._meta.fields: declared field name -> field class
MetaFields(m) ==
    IF issubclass(m, "EpisodeSubrecord")
    THEN ("id" :> "AutoField") @@ ("episode" :> "ForeignKey")
         @@ ("flag" :> "BooleanField") @@ ("date" :> "DateField")
         @@ ("cond_fk" :> "ForeignKey") @@ ("cond_ft" :> "CharField")
         @@ ("text" :> "CharField")
    ELSE IF issubclass(m, "PatientSubrecord")
    THEN ("id" :> "AutoField") @@ ("patient" :> "ForeignKey")
         @@ ("flag" :> "BooleanField") @@ ("date" :> "DateField")
         @@ ("cond_fk" :> "ForeignKey") @@ ("cond_ft" :> "CharField")
         @@ ("text" :> "CharField")
    ELSE IF m = "Tagging"
    THEN ("id" :> "AutoField") @@ ("episode" :> "ForeignKey")
         @@ ("team" :> "ForeignKey") @@ ("user" :> "ForeignKey")
    ELSE ("id" :> "AutoField") @@ ("name" :> "CharField")

\* class attributes that are fields.ForeignKeyOrFreeText
FKorFTAttrs(m) == IF IsSubrecord(m) THEN {"cond"} ELSE {}

\* a field name is declared on the class
Declared(m, field) == field \in DOMAIN MetaFields(m) \/ field \in FKorFTAttrs(m)

----------------------------------------------------------------------------
(* The record store: Episode.objects.filter / Patient.objects.filter *)

Range(seq) == {seq[i] : i \in 1..Len(seq)}

\* p.episode_set.all()
episode_set(p) == {e \in Episodes : episode_patient[e] = p}

\* the classes reachable from the root model under the relation name rel:
\* a subrecord's reverse relation lives on the model its foreign key points to
Relation(root, rel) ==
    {m \in Range(registry) :
        /\ ClassInfo[m].name = rel
        /\ ClassInfo[m].base = (IF root = "Episode" THEN "EpisodeSubrecord"
                                ELSE "PatientSubrecord")}

FieldValue(row, path) ==
    IF path[1] \in {"pk", "id"} THEN Digits(row.pk) ELSE row[path[1]]

\* one lookup of the store applied to one field value
Compare(lookup, fv, val) ==
    CASE lookup = "exact"     -> fv = val
      [] lookup = "lt"        -> fv < val
      [] lookup = "lte"       -> fv <= val
      [] lookup = "gt"        -> fv > val
      [] lookup = "gte"       -> fv >= val
      [] lookup = "iexact"    -> Lower(fv) = Lower(val)
      [] lookup = "icontains" -> IsSubstring(Lower(val), Lower(fv))

FieldError == [ok |-> FALSE, ids |-> {}]

\* root.objects.filter(**{rel__path__lookup: val}): the owners (of the root
\* model) of the rows of rel that satisfy the lookup; a keyword the store
\* cannot resolve raises FieldError
filter(root, rel, path, lookup, val) ==
    LET targets == Relation(root, rel) IN
    IF targets = {} THEN FieldError
    ELSE LET m == CHOOSE t \in targets : TRUE IN
         IF path[1] \notin (DOMAIN MetaFields(m) \cup {"pk"}) THEN FieldError
         ELSE IF Len(path) = 2 /\ (path[1] = "pk" \/ MetaFields(m)[path[1]] # "ForeignKey")
         THEN FieldError
         ELSE [ok  |-> TRUE,
               ids |-> {r.owner : r \in {x \in tables[m] :
                            /\ (Len(path) = 2 => x[path[1]] # NoFk)
                            /\ Compare(lookup, FieldValue(x, path), val)}}]

\* Episode.objects.ever_tagged(team): historical taggings included
ever_tagged(team) == {r.owner : r \in {x \in tables["Tagging"] : x.team = team}}

\* Synonym.objects.get(content_type=..., name=name).content_object.name,
\* or the name itself on Synonym.DoesNotExist
synonym_name(name) ==
    LET found == {s \in synonyms : s.name = name} IN
    IF found = {} THEN name ELSE (CHOOSE s \in found : TRUE).canonical

Call(root, rel, path, lookup) ==
    [root |-> root, rel |-> rel, path |-> path, lookup |-> lookup]

Returned(eps, Mod, kind, calls) ==
    [eps |-> eps, err |-> "none", Mod |-> Mod, kind |-> kind, calls |-> calls]

Raised(err, Mod, kind, calls) ==
    [eps |-> {}, err |-> err, Mod |-> Mod, kind |-> kind, calls |-> calls]

----------------------------------------------------------------------------
(* Extractor: the kind-specific matchers *)

\* val = query['query'] == 'true'
boolean_value(q) == q.query = <<"t", "r", "u", "e">>

_episodes_for_boolean_fields(q, field, Mod) ==
    LET val == boolean_value(q)
        f   == filter("Episode", q.column, <<field>>, "exact", val)
        c   == <<Call("Episode", q.column, <<field>>, "exact")>>
    IN  IF f.ok THEN Returned(f.ids, Mod, "boolean", c)
        ELSE Raised("FieldError", Mod, "boolean", c)

date_qtype_exclusive(q) ==
    IF q.queryType = "Before" THEN "lt"
    ELSE IF q.queryType = "After" THEN "gt"
    ELSE "exact"

date_qtype(q) ==
    IF q.queryType = "Before" THEN "lte"
    ELSE IF q.queryType = "After" THEN "gte"
    ELSE "exact"

_episodes_for_date_fields(q, field, Mod) ==
    LET parsed == strptime(q.query) IN
    IF ~parsed.ok THEN Raised("ValueError", Mod, "date", <<>>)
    ELSE LET qtype == date_qtype(q)
             f == filter("Episode", q.column, <<field>>, qtype, parsed.date)
             c == <<Call("Episode", q.column, <<field>>, qtype)>>
         IN  IF f.ok THEN Returned(f.ids, Mod, "date", c)
             ELSE Raised("FieldError", Mod, "date", c)

\* the value the free-text fallback is compared with
fkorft_ft_value(q, name) == q.query

_episodes_for_fkorft_fields(q, field, contains, Mod) ==
    LET name  == synonym_name(q.query)
        fk    == <<field \o "_fk", "name">>
        ft    == <<field \o "_ft">>
        root  == IF issubclass(Mod, "EpisodeSubrecord") THEN "Episode" ELSE "Patient"
        qs_fk == filter(root, q.column, fk, contains, name)
        qs_ft == filter(root, q.column, ft, contains, fkorft_ft_value(q, name))
        c     == <<Call(root, q.column, fk, contains), Call(root, q.column, ft, contains)>>
    IN  IF issubclass(Mod, "EpisodeSubrecord")
        THEN IF qs_fk.ok /\ qs_ft.ok
             THEN Returned(qs_fk.ids \cup qs_ft.ids, Mod, "hybrid", c)
             ELSE Raised("FieldError", Mod, "hybrid", c)
        ELSE IF issubclass(Mod, "PatientSubrecord")
        THEN IF qs_fk.ok /\ qs_ft.ok
             THEN Returned(UNION {episode_set(p) : p \in qs_fk.ids \cup qs_ft.ids},
                           Mod, "hybrid", c)
             ELSE Raised("FieldError", Mod, "hybrid", c)
        ELSE Raised("UnboundLocalError", Mod, "hybrid", <<>>)

----------------------------------------------------------------------------
(* Extractor.episodes_for_criteria *)

\* the loop over djangomodels.get_models(): the first class of that name is
\* kept, a later one replaces it only if it is a subrecord class
RECURSIVE resolve_loop(_, _, _)
resolve_loop(i, model_name, Mod) ==
    IF i > Len(registry) THEN Mod
    ELSE LET m == registry[i] IN
         IF ClassInfo[m].name = model_name
         THEN IF Mod = None THEN resolve_loop(i + 1, model_name, m)
              ELSE IF IsSubrecord(m) THEN resolve_loop(i + 1, model_name, m)
              ELSE resolve_loop(i + 1, model_name, Mod)
         ELSE resolve_loop(i + 1, model_name, Mod)

resolve_model(model_name) ==
    IF model_name = "tags" THEN "Tagging" ELSE resolve_loop(1, model_name, None)

contains_lookup(q) == IF q.queryType = "Contains" THEN "icontains" ELSE "iexact"

\* the final else branch: a plain string match, or the Tags virtual type
episodes_for_plain(q, field, contains, Mod) ==
    IF Mod = "Tagging" THEN Returned(ever_tagged(field), Mod, "tags", <<>>)
    ELSE IF issubclass(Mod, "EpisodeSubrecord")
    THEN LET f == filter("Episode", q.column, <<field>>, contains, q.query)
             c == <<Call("Episode", q.column, <<field>>, contains)>>
         IN  IF f.ok THEN Returned(f.ids, Mod, "plain", c)
             ELSE Raised("FieldError", Mod, "plain", c)
    ELSE IF issubclass(Mod, "PatientSubrecord")
    THEN LET f == filter("Patient", q.column, <<field>>, contains, q.query)
             c == <<Call("Patient", q.column, <<field>>, contains)>>
         IN  IF f.ok
             THEN Returned(UNION {episode_set(p) : p \in f.ids}, Mod, "plain", c)
             ELSE Raised("FieldError", Mod, "plain", c)
    ELSE Raised("UnboundLocalError", Mod, "plain", <<>>)

episodes_for_criteria(criteria) ==
    LET q        == criteria
        contains == contains_lookup(q)
        field    == q.field
        Mod      == resolve_model(q.column)
    IN  IF Mod = None THEN Raised("AttributeError", Mod, "unresolved", <<>>)
        ELSE LET named_fields == {f \in DOMAIN MetaFields(Mod) : f = field} IN
             IF named_fields # {} /\ MetaFields(Mod)[field] = "BooleanField"
             THEN _episodes_for_boolean_fields(q, field, Mod)
             ELSE IF named_fields # {} /\ MetaFields(Mod)[field] = "DateField"
             THEN _episodes_for_date_fields(q, field, Mod)
             ELSE IF field \in FKorFTAttrs(Mod)
             THEN _episodes_for_fkorft_fields(q, field, contains, Mod)
             ELSE episodes_for_plain(q, field, contains, Mod)

----------------------------------------------------------------------------
(* Extractor.get_episodes *)

combine_sets_swapped(combine, episodes, acc) ==
    CASE combine = "and" -> episodes \cup acc
      [] combine = "or"  -> episodes \cap acc
      [] combine = "not" -> episodes \ acc

\* getattr(set(episodes), methods[combine])(working)
combine_sets(combine, episodes, acc) ==
    CASE combine = "and" -> episodes \cap acc
      [] combine = "or"  -> episodes \cup acc
      [] combine = "not" -> episodes \ acc

NoTrace == [criterion |-> None,
            outcome |-> [eps |-> {}, err |-> "none", Mod |-> None, kind |-> "none",
                         calls |-> <<>>]]

\* a comprehension that swallows the exception and takes no episodes instead
match_next_swallow ==
    /\ pc = "matching"
    /\ Len(all_matches) < Len(query)
    /\ LET q == query[Len(all_matches) + 1]
           r == episodes_for_criteria(q)
       IN  /\ last' = [criterion |-> q, outcome |-> r]
           /\ all_matches' = Append(all_matches,
                                    [combine |-> q.combine, episodes |-> r.eps])
    /\ UNCHANGED <<view_vars, store_vars, query, pc, error, working, rest, result>>

\* all_matches = [(q['combine'], self.episodes_for_criteria(q)) for q in query]:
\* one element of the comprehension; an exception leaves get_episodes
match_next ==
    /\ pc = "matching"
    /\ Len(all_matches) < Len(query)
    /\ LET q == query[Len(all_matches) + 1]
           r == episodes_for_criteria(q)
       IN  /\ last' = [criterion |-> q, outcome |-> r]
           /\ IF r.err # "none"
              THEN /\ pc' = "raised"
                   /\ error' = r.err
                   /\ UNCHANGED all_matches
              ELSE /\ all_matches' = Append(all_matches,
                                            [combine |-> q.combine, episodes |-> r.eps])
                   /\ UNCHANGED <<pc, error>>
    /\ UNCHANGED <<view_vars, store_vars, query, working, rest, result>>

\* if not all_matches: return []  /  working = set(all_matches[0][1])
begin_fold ==
    /\ pc = "matching"
    /\ Len(all_matches) = Len(query)
    /\ IF all_matches = <<>>
       THEN /\ result' = {}
            /\ pc' = "returned"
            /\ UNCHANGED <<working, rest>>
       ELSE /\ working' = all_matches[1].episodes
            /\ rest' = Tail(all_matches)
            /\ pc' = "folding"
            /\ UNCHANGED result
    /\ UNCHANGED <<view_vars, store_vars, query, all_matches, error, last>>

\* one iteration of: for combine, episodes in rest
fold_step ==
    /\ pc = "folding"
    /\ rest # <<>>
    /\ working' = combine_sets(rest[1].combine, rest[1].episodes, working)
    /\ rest' = Tail(rest)
    /\ UNCHANGED <<view_vars, store_vars, query, pc, all_matches, result, error, last>>

\* eps = working; return eps
return_eps ==
    /\ pc = "folding"
    /\ rest = <<>>
    /\ result' = working
    /\ pc' = "returned"
    /\ UNCHANGED <<view_vars, store_vars, query, all_matches, working, rest, error, last>>

----------------------------------------------------------------------------
(* Inputs: literals, rows and criteria *)

V_true  == <<"t", "r", "u", "e">>
V_TRUE  == <<"T", "R", "U", "E">>
V_True  == <<"T", "r", "u", "e">>
V_false == <<"f", "a", "l", "s", "e">>
V_one   == <<"1">>

D_1June == <<"01", "/", "06", "/", "2020">>
D_6Jan  == <<"06", "/", "01", "/", "2020">>
D_bad   == <<"13", "/", "13", "/", "2020">>

Canon     == <<"h", "i", "v">>
Syn       == <<"a", "i", "d", "s">>
OtherName == <<"t", "b">>

DefaultRow(o) ==
    [owner |-> o, pk |-> o, flag |-> FALSE, date |-> Ordinal(2020, 6, 1),
     cond_fk |-> NoFk, cond_ft |-> <<>>, text |-> <<"a", "b">>]

FieldKinds == {"flag", "date", "cond", "text"}

\* the values one row may take in the field group that varies
Variations(kind) ==
    CASE kind = "flag" -> {[flag |-> b] : b \in BOOLEAN}
      [] kind = "date" -> {[date |-> d] : d \in {Ordinal(2020, 5, 31), Ordinal(2020, 6, 1),
                                                 Ordinal(2020, 6, 2)}}
      [] kind = "cond" -> {[cond_fk |-> Canon, cond_ft |-> <<>>],
                           [cond_fk |-> OtherName, cond_ft |-> <<>>],
                           [cond_fk |-> NoFk, cond_ft |-> <<"H", "I", "V", "+">>],
                           [cond_fk |-> NoFk, cond_ft |-> Syn]}
      [] kind = "text" -> {[text |-> t] : t \in {<<"a", "b">>, <<"B">>}}

BaseOrder == <<"Diagnosis", "Demographics", "Tagging", "AllergiesLookup", "Allergies",
               "TravelE", "TravelP", "LineA", "LineB">>

Reverse(seq) == [i \in 1..Len(seq) |-> seq[Len(seq) + 1 - i]]

TaggingRows == {[owner |-> 1, pk |-> 1, team |-> "micro", current |-> FALSE],
                [owner |-> 2, pk |-> 2, team |-> "micro", current |-> TRUE]}

\* the tables, with the rows of Diagnosis and of Demographics given
Tables(diag, dem) ==
       ("Diagnosis"    :> diag)
    @@ ("Demographics" :> dem)
    @@ ("Allergies"    :> {})
    @@ ("TravelE"      :> {DefaultRow(1)})
    @@ ("TravelP"      :> {DefaultRow(NumPatients)})
    @@ ("Tagging"      :> TaggingRows)

Criterion(column, field, queryType, value, combine) ==
    [column |-> column, field |-> field, queryType |-> queryType, query |-> value,
     combine |-> combine]

Scoped == {"diagnosis", "demographics"}

SingleCriteria ==
    {Criterion(c, "flag", "Equals", v, "and") :
        c \in Scoped, v \in {V_true, V_TRUE, V_True, V_false, V_one}}
    \cup {Criterion(c, "date", t, v, "and") :
        c \in Scoped, t \in {"Before", "After", "Equals"}, v \in {D_1June, D_6Jan, D_bad}}
    \cup {Criterion(c, "cond", t, v, "and") :
        c \in Scoped, t \in {"Equals", "Contains"},
        v \in {Syn, Canon, <<"H", "I", "V">>, <<"t">>}}
    \cup {Criterion(c, "text", t, v, "and") :
        c \in Scoped, t \in {"Equals", "Contains"}, v \in {<<"b">>, <<"A", "B">>}}
    \cup {Criterion(c, f, "Equals", V_one, "and") : c \in Scoped, f \in {"pk", "bogus"}}
    \cup {Criterion(c, "text", "Equals", <<"A", "B">>, "and") :
        c \in {"allergies", "travel", "line", "nosuch"}}
    \cup {Criterion(c, "flag", "Equals", V_false, "and") :
        c \in {"allergies", "travel", "line"}}
    \cup {Criterion("tags", f, "Equals", V_true, "and") : f \in {"micro", "renal"}}

Combinators == {"and", "or", "not"}

FoldCriteria ==
    {Criterion("diagnosis", "flag", "Equals", V_true, k) : k \in Combinators}
    \cup {Criterion("diagnosis", "date", "Before", D_1June, k) : k \in Combinators}
    \cup {Criterion("demographics", "text", "Contains", <<"b">>, k) : k \in Combinators}
    \cup {Criterion("diagnosis", "date", "After", D_bad, k) : k \in Combinators}
    \cup {Criterion("demographics", "date", "Before", D_1June, k) : k \in Combinators}

RECURSIVE SeqsUpTo(_, _)
SeqsUpTo(S, n) ==
    IF n = 0 THEN {<<>>}
    ELSE LET shorter == SeqsUpTo(S, n - 1) IN
         shorter \cup {Append(q, c) : q \in shorter, c \in S}

----------------------------------------------------------------------------
(* The legacy API views and the change-notification sink *)

Categories == {"inpatient", "outpatient"}
Tokens == {0, 1}

NoReq   == [view |-> "none"]
NoResp  == [status |-> 0, body |-> "none"]
NewTrace == [updates |-> 0, committed |-> FALSE, sink_calls |-> 0, sink_failed |-> FALSE]

Response(status, body) == [status |-> status, body |-> body]

\* an uncaught exception leaves the view: the caller gets no success response
ServerError == Response(500, "exception")

\* episode.update_from_dict(data, user): a stale consistency token raises
\* ConsistencyError and changes nothing, otherwise the row takes the data and
\* a new token
update_from_dict(row, data) ==
    IF data.consistency_token # row.token
    THEN [ok |-> FALSE, row |-> row]
    ELSE [ok |-> TRUE,
          row |-> [row EXCEPT !.category = data.category, !.token = 1 - row.token]]

\* patient.create_episode(): refused while the patient has an active episode
has_active_episode(patient) ==
    \E k \in DOMAIN db : db[k].patient = patient /\ db[k].active

UnusedPks == Episodes \ DOMAIN db

NewPk == CHOOSE k \in UnusedPks : \A j \in UnusedPks : k <= j

Accepting == vpc \in {"idle", "done"} /\ served < MaxRequests

\* episode_detail_view: the lookup, the GET branch, and the entry of the PUT branch
episode_detail_view ==
    /\ Accepting
    /\ served' = served + 1
    /\ cur' = NewTrace
    /\ \E pk \in Episodes, method \in {"GET", "PUT"} :
          \E data \in IF method = "GET" THEN {[category |-> "inpatient", consistency_token |-> 0]}
                      ELSE [category : Categories, consistency_token : Tokens] :
             /\ req' = [view |-> "episode_detail", method |-> method, pk |-> pk, data |-> data]
             /\ IF pk \notin DOMAIN db
                THEN resp' = Response(404, "not found") /\ vpc' = "done"
                ELSE IF method = "GET"
                THEN resp' = Response(200, "episode") /\ vpc' = "done"
                ELSE resp' = NoResp /\ vpc' = "detail_update"
    /\ UNCHANGED <<db, sink_log, store_vars, extractor_vars>>

\* an update whose ConsistencyError is passed over: the view goes on to notify
episode_detail_update_passes ==
    /\ vpc = "detail_update"
    /\ LET u == update_from_dict(db[req.pk], req.data) IN
       IF u.ok
       THEN /\ db' = [db EXCEPT ![req.pk] = u.row]
            /\ cur' = [cur EXCEPT !.updates = @ + 1, !.committed = TRUE]
       ELSE /\ cur' = [cur EXCEPT !.updates = @ + 1]
            /\ UNCHANGED db
    /\ vpc' = "detail_notify"
    /\ UNCHANGED <<resp, req, sink_log, served, store_vars, extractor_vars>>

\* pre = to_dict; episode.update_from_dict(data, user); post = to_dict,
\* with the except ConsistencyError clause
episode_detail_update ==
    /\ vpc = "detail_update"
    /\ LET u == update_from_dict(db[req.pk], req.data) IN
       IF u.ok
       THEN /\ db' = [db EXCEPT ![req.pk] = u.row]
            /\ cur' = [cur EXCEPT !.updates = @ + 1, !.committed = TRUE]
            /\ vpc' = "detail_notify"
            /\ UNCHANGED resp
       ELSE /\ resp' = Response(409, "Item has changed")
            /\ cur' = [cur EXCEPT !.updates = @ + 1]
            /\ vpc' = "done"
            /\ UNCHANGED db
    /\ UNCHANGED <<req, sink_log, served, store_vars, extractor_vars>>

\* glossolalia.change(pre, post); return _build_json_response(...)
episode_detail_notify ==
    /\ vpc = "detail_notify"
    /\ \E delivered \in BOOLEAN :
          IF delivered
          THEN /\ sink_log' = Append(sink_log, [kind |-> "change", pk |-> req.pk])
               /\ cur' = [cur EXCEPT !.sink_calls = @ + 1]
               /\ resp' = Response(200, "episode")
          ELSE /\ cur' = [cur EXCEPT !.sink_calls = @ + 1, !.sink_failed = TRUE]
               /\ resp' = ServerError
               /\ UNCHANGED sink_log
    /\ vpc' = "done"
    /\ UNCHANGED <<db, req, served, store_vars, extractor_vars>>

\* episode_list_and_create_view: GET, and POST up to the created episode
episode_list_and_create_view ==
    /\ Accepting
    /\ served' = served + 1
    /\ \E method \in {"GET", "POST"} :
          \E data \in IF method = "GET" THEN {[hospital_number |-> 0, category |-> "inpatient"]}
                      ELSE [hospital_number : {0} \cup Patients, category : Categories] :
             /\ req' = [view |-> "episode_list_and_create", method |-> method, data |-> data]
             /\ IF method = "GET"
                THEN /\ resp' = Response(200, "episodes")
                     /\ vpc' = "done"
                     /\ cur' = NewTrace
                     /\ UNCHANGED db
                ELSE LET patient == IF data.hospital_number # 0 THEN data.hospital_number
                                    ELSE NumPatients + 1 + Cardinality(DOMAIN db)
                     IN  IF has_active_episode(patient)
                         THEN /\ resp' = Response(400, "Patient already has active episode")
                              /\ vpc' = "done"
                              /\ cur' = NewTrace
                              /\ UNCHANGED db
                         ELSE /\ UnusedPks # {}
                              /\ db' = (NewPk :> [patient |-> patient,
                                                  category |-> data.category,
                                                  token |-> 0, active |-> TRUE]) @@ db
                              /\ cur' = [NewTrace EXCEPT !.committed = TRUE]
                              /\ resp' = NoResp
                              /\ vpc' = "create_notify"
    /\ UNCHANGED <<sink_log, store_vars, extractor_vars>>

\* serialised = episode.to_dict(user); glossolalia.admit(serialised); 201
episode_create_notify ==
    /\ vpc = "create_notify"
    /\ \E delivered \in BOOLEAN :
          IF delivered
          THEN /\ sink_log' = Append(sink_log, [kind |-> "admit", pk |-> 0])
               /\ cur' = [cur EXCEPT !.sink_calls = @ + 1]
               /\ resp' = Response(201, "episode")
          ELSE /\ cur' = [cur EXCEPT !.sink_calls = @ + 1, !.sink_failed = TRUE]
               /\ resp' = ServerError
               /\ UNCHANGED sink_log
    /\ vpc' = "done"
    /\ UNCHANGED <<db, req, served, store_vars, extractor_vars>>

\* EpisodeCopyToCategoryView.post up to the saved copy
episode_copy_to_category ==
    /\ Accepting
    /\ served' = served + 1
    /\ \E pk \in Episodes, category \in Categories :
          /\ req' = [view |-> "episode_copy", method |-> "POST", pk |-> pk,
                     data |-> [category |-> category]]
          /\ IF pk \notin DOMAIN db
             THEN /\ resp' = ServerError
                  /\ vpc' = "done"
                  /\ cur' = NewTrace
                  /\ UNCHANGED db
             ELSE /\ UnusedPks # {}
                  /\ db' = (NewPk :> [patient |-> db[pk].patient, category |-> category,
                                      token |-> 0, active |-> TRUE]) @@ db
                  /\ cur' = [NewTrace EXCEPT !.committed = TRUE]
                  /\ resp' = NoResp
                  /\ vpc' = "copy_notify"
    /\ UNCHANGED <<sink_log, store_vars, extractor_vars>>

\* serialised = new.to_dict(user); glossolalia.admit(serialised); 200
episode_copy_notify ==
    /\ vpc = "copy_notify"
    /\ \E delivered \in BOOLEAN :
          IF delivered
          THEN /\ sink_log' = Append(sink_log, [kind |-> "admit", pk |-> 0])
               /\ cur' = [cur EXCEPT !.sink_calls = @ + 1]
               /\ resp' = Response(200, "episode")
          ELSE /\ cur' = [cur EXCEPT !.sink_calls = @ + 1, !.sink_failed = TRUE]
               /\ resp' = ServerError
               /\ UNCHANGED sink_log
    /\ vpc' = "done"
    /\ UNCHANGED <<db, req, served, store_vars, extractor_vars>>

ViewsInit ==
    /\ db = (1 :> [patient |-> 1, category |-> "inpatient", token |-> 0, active |-> TRUE])
    /\ req = NoReq
    /\ vpc = "idle"
    /\ resp = NoResp
    /\ cur = NewTrace
    /\ sink_log = <<>>
    /\ served = 0

----------------------------------------------------------------------------
(* Extractor.get_query and the specifications of the extraction engine *)

ExtractorInit ==
    /\ query = None
    /\ pc = "start"
    /\ all_matches = <<>>
    /\ working = {}
    /\ rest = <<>>
    /\ result = {}
    /\ error = "none"
    /\ last = NoTrace

Topology == [e \in Episodes |-> ((e - 1) % NumPatients) + 1]

\* stores in which the rows of one subrecord type vary in one field group
InitResolve ==
    /\ registry \in {BaseOrder, Reverse(BaseOrder)}
    /\ episode_patient = Topology
    /\ synonyms = {[name |-> Syn, canonical |-> Canon]}
    /\ \E kind \in FieldKinds :
          \/ \E f \in [Episodes -> Variations(kind)] :
                tables = Tables({f[e] @@ DefaultRow(e) : e \in Episodes},
                                {DefaultRow(p) : p \in Patients})
          \/ \E f \in [Patients -> Variations(kind)] :
                tables = Tables({DefaultRow(e) : e \in Episodes},
                                {f[p] @@ DefaultRow(p) : p \in Patients})
    /\ ExtractorInit
    /\ ViewsInit

\* one store on which the three resolvable criteria of FoldCriteria give
\* result sets that overlap without being nested; the other two criteria fail
\* (a malformed date, and a store keyword that does not resolve)
InitFold ==
    /\ registry = BaseOrder
    /\ episode_patient = Topology
    /\ synonyms = {[name |-> Syn, canonical |-> Canon]}
    /\ tables = Tables(
          {[flag |-> (e <= 2),
            date |-> IF e = 1 THEN Ordinal(2020, 6, 2) ELSE Ordinal(2020, 6, 1)]
             @@ DefaultRow(e) : e \in Episodes},
          {[text |-> IF p = 1 THEN <<"a", "b">> ELSE <<"a">>] @@ DefaultRow(p) :
             p \in Patients})
    /\ ExtractorInit
    /\ ViewsInit

\* Extractor.get_query: the criteria of the request body (one criterion,
\* alone or followed by a Tags criterion)
get_query ==
    /\ pc = "start"
    /\ \E c \in SingleCriteria :
          \/ query' = <<c>>
          \/ query' = <<c, Criterion("tags", "micro", "Equals", V_true, "or")>>
    /\ pc' = "matching"
    /\ UNCHANGED <<view_vars, store_vars, all_matches, working, rest, result, error, last>>

\* DownloadSearchView.get_query: json.loads(request.POST['criteria'])
download_get_query ==
    /\ pc = "start"
    /\ \E q \in SeqsUpTo(FoldCriteria, MaxCriteria) : query' = q
    /\ pc' = "matching"
    /\ UNCHANGED <<view_vars, store_vars, all_matches, working, rest, result, error, last>>

NextResolve == get_query \/ match_next \/ begin_fold \/ fold_step \/ return_eps

NextFold == download_get_query \/ match_next \/ begin_fold \/ fold_step \/ return_eps

SpecResolve == InitResolve /\ [][NextResolve]_vars

SpecFold == InitFold /\ [][NextFold]_vars

NextViews ==
    \/ episode_detail_view \/ episode_detail_update \/ episode_detail_notify
    \/ episode_list_and_create_view \/ episode_create_notify
    \/ episode_copy_to_category \/ episode_copy_notify

SpecViews == InitFold /\ [][NextViews]_vars

----------------------------------------------------------------------------
(* Claims about Extractor.get_episodes (SpecFold) *)

Resolves(c) == episodes_for_criteria(c).err = "none"

\* the fold as specified: seeded with the first set, then accumulated op set
RECURSIVE LeftFold(_, _, _)
LeftFold(q, i, acc) ==
    IF i > Len(q) THEN acc
    ELSE LET s == episodes_for_criteria(q[i]).eps IN
         LeftFold(q, i + 1,
                  CASE q[i].combine = "and" -> acc \cap s
                    [] q[i].combine = "or"  -> acc \cup s
                    [] q[i].combine = "not" -> acc \ s)

FoldOf(q) == IF q = <<>> THEN {} ELSE LeftFold(q, 2, episodes_for_criteria(q[1]).eps)

\* C1: a fold step whose combinator is 'not' leaves the accumulated set minus
\* the criterion's own set (never the criterion's set minus the accumulated)
C1_NotIsAccumulatedMinusCriterion ==
    [][(pc = "folding" /\ rest # <<>> /\ rest[1].combine = "not")
          => working' = working \ rest[1].episodes]_vars

\* C2: when the criteria after the first use only 'and' and 'or', the result
\* is the left fold in declaration order seeded with the first criterion's set;
\* the first criterion's combinator does not matter, and the empty query
\* returns the empty result without an error
C2_AndOrLeftFold ==
    /\ (pc = "returned" /\ \A i \in 2..Len(query) : query[i].combine \in {"and", "or"})
          => /\ result = FoldOf(query)
             /\ \A k \in Combinators :
                   query # <<>> => result = FoldOf([query EXCEPT ![1].combine = k])
             /\ error = "none"
    /\ (pc # "start" /\ query = <<>>) => (pc # "raised" /\ result = {} /\ error = "none")

C2_Witness ==
    /\ pc = "returned"
    /\ Len(query) = 3
    /\ query[1].combine = "not"
    /\ query[2].combine = "or"
    /\ query[3].combine = "and"
    /\ result # {}
    /\ result # all_matches[1].episodes
    /\ result # all_matches[3].episodes

FailingPositions == {i \in 1..Len(query) : ~Resolves(query[i])}

\* C9: a criterion whose resolution fails, at any position, makes the whole
\* query fail with that error: nothing is folded or returned, and the failing
\* criterion is never passed over
C9_FailureAbortsQuery ==
    pc # "start" =>
        /\ pc \in {"folding", "returned"} => FailingPositions = {}
        /\ \A i \in FailingPositions : Len(all_matches) < i
        /\ pc = "raised" =>
              /\ FailingPositions # {}
              /\ Len(all_matches) + 1 \in FailingPositions
              /\ error = episodes_for_criteria(query[Len(all_matches) + 1]).err
              /\ result = {} /\ working = {} /\ rest = <<>>
        /\ pc # "raised" => error = "none"

C9_Witness ==
    /\ pc = "raised"
    /\ Len(query) = 3
    /\ Len(all_matches) = 2
    /\ error = "ValueError"
    /\ all_matches[1].episodes # {}
    /\ all_matches[2].episodes # {}

----------------------------------------------------------------------------
(* Claims about Extractor.episodes_for_criteria (SpecResolve) *)

\* the criterion resolved last and what its resolution did
LastQ   == last.criterion
LastOut == last.outcome
Traced  == last.outcome.kind # "none"

\* C3: a boolean criterion's value is parsed case-insensitively: "true",
\* "TRUE" and "True" select the records whose field is true, any other
\* literal those whose field is false
C3_BooleanCaseInsensitive ==
    (Traced /\ LastOut.kind = "boolean" /\ LastOut.err = "none") =>
        LastOut.eps = {r.owner : r \in {x \in tables[LastOut.Mod] :
                                          x.flag = (Lower(LastQ.query) = V_true)}}

\* C4: on a hybrid field a known synonym resolves to exactly the episode set
\* of the same criterion with the canonical name as value
C4_SynonymSameAsCanonical ==
    (Traced /\ LastOut.kind = "hybrid" /\ \E s \in synonyms : s.name = LastQ.query) =>
        LET canonical == episodes_for_criteria(
                            [LastQ EXCEPT !.query = synonym_name(LastQ.query)])
        IN  /\ LastOut.err = canonical.err
            /\ LastOut.eps = canonical.eps

\* the patients a criterion on a boolean or date field of a Patient-scoped
\* type matches
MatchedPatients(q, Mod) ==
    IF q.field = "flag"
    THEN {r.owner : r \in {x \in tables[Mod] : x.flag = boolean_value(q)}}
    ELSE {r.owner : r \in {x \in tables[Mod] :
                             Compare(date_qtype(q), x.date, strptime(q.query).date)}}

\* C5: a criterion on a Patient-scoped type, whatever the field kind, matches
\* Patients and returns the union of all Episodes of every matched Patient
C5_PatientScopedExpands ==
    (/\ Traced
     /\ issubclass(LastOut.Mod, "PatientSubrecord")
     /\ LastQ.field \in FieldKinds
     /\ (LastQ.field = "date" => strptime(LastQ.query).ok)) =>
        /\ LastOut.err = "none"
        /\ \A e \in LastOut.eps : episode_set(episode_patient[e]) \subseteq LastOut.eps
        /\ LastQ.field \in {"flag", "date"} =>
              LastOut.eps = UNION {episode_set(p) :
                                     p \in MatchedPatients(LastQ, LastOut.Mod)}

Candidates(column) == {m \in Range(registry) : ClassInfo[m].name = column}

\* C6: a type name matching several registered types resolves to the single
\* subrecord candidate if exactly one exists and otherwise fails with an
\* ambiguity error
C6_AmbiguityResolvedOrRejected ==
    (Traced /\ LastQ.column # "tags" /\ Cardinality(Candidates(LastQ.column)) > 1) =>
        LET subs == {m \in Candidates(LastQ.column) : IsSubrecord(m)} IN
        IF Cardinality(subs) = 1 THEN LastOut.Mod \in subs
        ELSE LastOut.err = "AmbiguousTypeError"

\* C8: a field name not declared on the resolved type (other than Tags) fails
\* with an unknown-field error and is never passed to the record store
C8_UnknownFieldRejected ==
    (/\ Traced
     /\ LastOut.Mod \notin {None, "Tagging"}
     /\ ~Declared(LastOut.Mod, LastQ.field)) =>
        /\ LastOut.err = "UnknownFieldError"
        /\ LastOut.calls = <<>>

----------------------------------------------------------------------------
(* Claims about the API views (SpecViews) *)

\* C7: once the update, creation or copy has succeeded, a failure of the
\* sink call does not fail the operation: the caller still receives the success
\* response
C7_SinkFailureDoesNotFailOperation ==
    (vpc = "done" /\ cur.committed /\ cur.sink_failed) => resp.status \in {200, 201}

\* the PUT of episode_detail_view about to call update_from_dict with a
\* consistency token that is no longer the record's
StaleUpdate ==
    /\ vpc = "detail_update"
    /\ req.data.consistency_token # db[req.pk].token

InDetailPut == req.view = "episode_detail" /\ req.method = "PUT"

\* C11: a PUT whose update raises ConsistencyError is answered 409, the update
\* is attempted once and no change notification is sent; a change notification
\* is sent only after an update that succeeded, and then exactly once
C11_ConflictIs409WithoutRetryOrNotification ==
    /\ [][StaleUpdate =>
            /\ resp' = Response(409, "Item has changed")
            /\ vpc' = "done"
            /\ cur'.updates = 1
            /\ cur'.sink_calls = 0
            /\ sink_log' = sink_log
            /\ db' = db]_vars
    /\ [](InDetailPut =>
            /\ cur.updates <= 1
            /\ cur.sink_calls <= 1
            /\ cur.sink_calls = 1 => (cur.committed /\ cur.updates = 1)
            /\ (vpc = "done" /\ cur.committed) => cur.sink_calls = 1
            /\ (vpc = "done" /\ cur.updates = 1 /\ ~cur.committed) =>
                  (resp.status = 409 /\ cur.sink_calls = 0))
    /\ [](Len(sink_log) <= served)

\* a second PUT carrying the token the first PUT has already used up
C11_Witness ==
    /\ vpc = "done"
    /\ InDetailPut
    /\ resp.status = 409
    /\ cur.updates = 1
    /\ ~cur.committed
    /\ cur.sink_calls = 0
    /\ served = 2
    /\ sink_log = <<[kind |-> "change", pk |-> req.pk]>>

====
